---- MODULE Spec2Model ----
(***************************************************************************)
(* lambda_handler of lambda_function.py: one invocation decodes the event, *)
(* extracts four fields with defaults, calls bedrock_runtime.invoke_model  *)
(* and maps the outcome (or the raised exception) to                       *)
(* {statusCode, headers, body}.                                            *)
(*                                                                         *)
(* Python strings are sequences of atoms (so that f-strings are \o).       *)
(* JSON text is a sequence of tokens; json.loads is a parser over tokens   *)
(* and json.dumps a serialiser to tokens.                                  *)
(***************************************************************************)
EXTENDS Integers, Sequences, FiniteSets, TLC

\* ------------------------------------------------------------------ bounds
\* Invocations of the handler in one execution environment.
MaxInvocations == 2
\* Tokens that may be cut off the end of a well-formed event text.
MaxCut == 2

\* ------------------------------------------------- Python / JSON values
\* A value: kind, literal text (str, int, float, bool) and members
\* (list: k = <<>>; dict: k = the key, in insertion order).
Val(kind, lit, items) == [kind |-> kind, lit |-> lit, items |-> items]
Str(s) == Val("str", s, <<>>)
IntVal(s) == Val("int", <<s>>, <<>>)
FloatVal(s) == Val("float", <<s>>, <<>>)
None == Val("NoneType", <<>>, <<>>)
True == Val("bool", <<"true">>, <<>>)
False == Val("bool", <<"false">>, <<>>)
Member(k, v) == [k |-> k, v |-> v]
Dict(members) == Val("dict", <<>>, members)
List(vs) == Val("list", <<>>, [i \in 1..Len(vs) |-> Member(<<>>, vs[i])])
\* A local that has not been assigned.
Unset == Val("unset", <<>>, <<>>)

HasKey(d, key) == \E i \in 1..Len(d.items) : d.items[i].k = key
KeyIndex(d, key) == CHOOSE i \in 1..Len(d.items) : d.items[i].k = key
\* dict.get(key, default)
DictGet(d, key, default) == IF HasKey(d, key) THEN d.items[KeyIndex(d, key)].v ELSE default
\* d[key] = v : an existing key keeps its position
DictSet(d, key, v) ==
    IF HasKey(d, key)
    THEN Dict([d.items EXCEPT ![KeyIndex(d, key)] = Member(key, v)])
    ELSE Dict(Append(d.items, Member(key, v)))
Keys(d) == {d.items[i].k : i \in 1..Len(d.items)}

\* ------------------------------------------------------------ JSON text
Tok(t, s) == [t |-> t, s |-> s]
LBrace == Tok("{", <<>>)
RBrace == Tok("}", <<>>)
LBrack == Tok("[", <<>>)
RBrack == Tok("]", <<>>)
Colon == Tok(":", <<>>)
Comma == Tok(",", <<>>)

\* Number literals that json.loads reads as float; the others are int.
FloatLits == {"0.7", "0.9", "0.2", "0.5", "1e2", "100.0"}
\* float(text) followed by float.__repr__: "1e2" is the float 100.0.
FloatRepr(s) == IF s = "1e2" THEN "100.0" ELSE s

RECURSIVE Dumps(_)
RECURSIVE DumpMembers(_, _, _)
\* json.dumps(v): the members of a list or dict, from index i on.
DumpMembers(items, i, isDict) ==
    IF i > Len(items) THEN <<>>
    ELSE (IF i > 1 THEN <<Comma>> ELSE <<>>)
         \o (IF isDict THEN <<Tok("str", items[i].k), Colon>> ELSE <<>>)
         \o Dumps(items[i].v)
         \o DumpMembers(items, i + 1, isDict)
Dumps(v) ==
    CASE v.kind = "str" -> <<Tok("str", v.lit)>>
      [] v.kind \in {"int", "float"} -> <<Tok("num", v.lit)>>
      [] v.kind = "bool" -> <<Tok("lit", v.lit)>>
      [] v.kind = "NoneType" -> <<Tok("lit", <<"null">>)>>
      [] v.kind = "list" -> <<LBrack>> \o DumpMembers(v.items, 1, FALSE) \o <<RBrack>>
      [] v.kind = "dict" -> <<LBrace>> \o DumpMembers(v.items, 1, TRUE) \o <<RBrace>>

\* A parse result: the value and the index after it, or the diagnostic.
Parsed(v, next) == [ok |-> TRUE, val |-> v, next |-> next, msg |-> "", pos |-> 0]
ParseError(msg, pos) == [ok |-> FALSE, val |-> Unset, next |-> 0, msg |-> msg, pos |-> pos]
At(toks, i) == IF i <= Len(toks) THEN toks[i].t ELSE "eof"

RECURSIVE ParseValue(_, _)
RECURSIVE ParseObject(_, _, _)
RECURSIVE ParseArray(_, _, _)
\* json.decoder.JSONObject after "{" or ",": a key is expected at i.
ParseObject(toks, i, acc) ==
    IF At(toks, i) # "str"
    THEN ParseError("Expecting property name enclosed in double quotes", i)
    ELSE IF At(toks, i + 1) # ":"
    THEN ParseError("Expecting ':' delimiter", i + 1)
    ELSE LET r == ParseValue(toks, i + 2) IN
         IF ~r.ok THEN r
         ELSE LET d == DictSet(acc, toks[i].s, r.val) IN
              CASE At(toks, r.next) = "}" -> Parsed(d, r.next + 1)
                [] At(toks, r.next) = "," -> ParseObject(toks, r.next + 1, d)
                [] OTHER -> ParseError("Expecting ',' delimiter", r.next)
\* json.decoder.JSONArray after "[" or ",": a value is expected at i.
ParseArray(toks, i, acc) ==
    LET r == ParseValue(toks, i) IN
    IF ~r.ok THEN r
    ELSE LET l == Append(acc, r.val) IN
         CASE At(toks, r.next) = "]" -> Parsed(List(l), r.next + 1)
           [] At(toks, r.next) = "," -> ParseArray(toks, r.next + 1, l)
           [] OTHER -> ParseError("Expecting ',' delimiter", r.next)
\* json.scanner.scan_once at index i.
ParseValue(toks, i) ==
    CASE At(toks, i) = "str" -> Parsed(Str(toks[i].s), i + 1)
      [] At(toks, i) = "num" ->
            Parsed(IF toks[i].s[1] \in FloatLits
                   THEN FloatVal(FloatRepr(toks[i].s[1])) ELSE IntVal(toks[i].s[1]), i + 1)
      [] At(toks, i) = "lit" ->
            Parsed(CASE toks[i].s = <<"null">> -> None
                     [] toks[i].s = <<"true">> -> True
                     [] toks[i].s = <<"false">> -> False, i + 1)
      [] At(toks, i) = "{" ->
            IF At(toks, i + 1) = "}" THEN Parsed(Dict(<<>>), i + 2)
            ELSE ParseObject(toks, i + 1, Dict(<<>>))
      [] At(toks, i) = "[" ->
            IF At(toks, i + 1) = "]" THEN Parsed(List(<<>>), i + 2)
            ELSE ParseArray(toks, i + 1, <<>>)
      [] OTHER -> ParseError("Expecting value", i)
\* json.loads(text): one value and nothing after it.
Loads(toks) ==
    LET r == ParseValue(toks, 1) IN
    IF r.ok /\ r.next <= Len(toks) THEN ParseError("Extra data", r.next) ELSE r
\* str(JSONDecodeError): the message and the position.
DecodeDiagnostic(r) == <<r.msg, ": char ", ToString(r.pos)>>

\* str(v) as an f-string field formats it (scalars).
Format(v) ==
    CASE v.kind \in {"str", "int", "float"} -> v.lit
      [] v.kind = "NoneType" -> <<"None">>
      [] v.kind = "bool" -> IF v = True THEN <<"True">> ELSE <<"False">>

\* ------------------------------------------------------------ exceptions
Exc(type, text, response) == [type |-> type, text |-> text, response |-> response]
NoExc == Exc("none", <<>>, Unset)
AttributeError(v, name) ==
    Exc("AttributeError", <<"'", v.kind, "' object has no attribute '", name, "'">>, Unset)
NotSubscriptable(v) ==
    Exc("TypeError", <<"'", v.kind, "' object is not subscriptable">>, Unset)
\* str(KeyError(key)) is repr(key)
KeyError(key) == Exc("KeyError", <<"'">> \o key \o <<"'">>, Unset)
JSONDecodeError(r) == Exc("JSONDecodeError", DecodeDiagnostic(r), Unset)

\* v[key] for a str key: the value, or the exception it raises.
Subscript(v, key) ==
    CASE v.kind = "dict" ->
            IF HasKey(v, key) THEN [ok |-> TRUE, val |-> DictGet(v, key, Unset), exc |-> NoExc]
            ELSE [ok |-> FALSE, val |-> Unset, exc |-> KeyError(key)]
      [] v.kind \in {"list", "str"} ->
            [ok |-> FALSE, val |-> Unset,
             exc |-> Exc("TypeError", <<v.kind, " indices must be integers">>, Unset)]
      [] OTHER -> [ok |-> FALSE, val |-> Unset, exc |-> NotSubscriptable(v)]

\* ---------------------------------------------------------------- inputs
PromptKey == <<"prompt">>
MaxTokensKey == <<"max_tokens">>
TemperatureKey == <<"temperature">>
TopPKey == <<"top_p">>
GenerationKey == <<"generation">>

\* Supplied field values; Unset stands for an absent field.
PromptChoices == {Unset, Str(<<"Hi">>), IntVal("5"), None, Dict(<<>>)}
MaxTokensChoices == {Unset, IntVal("200"), Str(<<"many">>)}
TemperatureChoices == {Unset, FloatVal("0.2")}
TopPChoices == {Unset, FloatVal("0.5")}

Field(key, v) == IF v = Unset THEN <<>> ELSE <<Member(key, v)>>
EventDict(p, m, t, tp) ==
    Dict(Field(PromptKey, p) \o Field(MaxTokensKey, m)
         \o Field(TemperatureKey, t) \o Field(TopPKey, tp))
EventDicts ==
    {EventDict(p, m, t, tp) : p \in PromptChoices, m \in MaxTokensChoices,
                              t \in TemperatureChoices, tp \in TopPChoices}
    \cup {Dict(<<Member(TopPKey, FloatVal("0.5")), Member(<<"user">>, Str(<<"u1">>)),
                 Member(PromptKey, Str(<<"Hi">>))>>)}
\* Decoded events: objects, and values that are no object.
EventValues == EventDicts \cup {List(<<Str(<<"Hi">>)>>), None, IntVal("5"), Str(<<"Hi">>)}

WellFormedTexts ==
    {Dumps(v) : v \in EventValues}
    \cup {<<LBrace, Tok("str", TemperatureKey), Colon, Tok("num", <<"1e2">>), RBrace>>,
          <<LBrace, Tok("str", PromptKey), Colon, Tok("str", <<"a">>), Comma,
            Tok("str", PromptKey), Colon, Tok("str", <<"b">>), RBrace>>}
DropToken(t, i) == [j \in 1..(Len(t) - 1) |-> IF j < i THEN t[j] ELSE t[j + 1]]
Cut(t, c) == [j \in 1..(IF Len(t) > c THEN Len(t) - c ELSE 0) |-> t[j]]
DamageBase ==
    {Dumps(EventDict(p, m, t, Unset)) :
        p \in {Unset, Str(<<"Hi">>)}, m \in {Unset, IntVal("200")}, t \in TemperatureChoices}
    \cup {Dumps(List(<<Str(<<"Hi">>)>>)), Dumps(None)}
\* Texts cut short, texts with one token lost, and trailing data.
DamagedTexts ==
    {Cut(t, c) : t \in DamageBase, c \in 1..MaxCut}
    \cup UNION {{DropToken(t, i) : i \in 1..(IF Len(t) < 2 + MaxCut THEN Len(t) ELSE 2 + MaxCut)} :
                t \in DamageBase}
    \cup {t \o <<RBrace>> : t \in {Dumps(Dict(<<>>)), Dumps(None)}}

\* The event argument: a Python str holding text, or a decoded value.
TextEvent(t) == [isText |-> TRUE, text |-> t, val |-> Unset]
ValueEvent(v) == [isText |-> FALSE, text |-> <<>>, val |-> v]
Events ==
    {TextEvent(t) : t \in WellFormedTexts \cup DamagedTexts}
    \cup {ValueEvent(v) : v \in EventValues \ {Str(<<"Hi">>)}}

\* os.environ: MODEL_ID set or not.
Environs == {Unset, Str(<<"meta.llama3-70b-instruct-v1:0">>)}

\* What bedrock_runtime.invoke_model does: returns a body stream (whose read
\* may fail), raises ClientError(response), or raises another error.
Returned(text, readFails) ==
    [type |-> "return", body |-> text, readFails |-> readFails, exc |-> NoExc]
Raised(e) == [type |-> "raise", body |-> <<>>, readFails |-> FALSE, exc |-> e]
ErrorDetail(code, message) == Dict(Field(<<"Code">>, code) \o Field(<<"Message">>, message))
ErrorCodes == {Unset, Str(<<"ThrottlingException">>), Str(<<"AccessDeniedException">>)}
ErrorMessages == {Unset, Str(<<"Too many requests">>)}
ErrorResponses ==
    {Dict(<<Member(<<"Error">>, ErrorDetail(c, m))>>) : c \in ErrorCodes, m \in ErrorMessages}
    \cup {Dict(<<>>), Dict(<<Member(<<"Error">>, None)>>)}
ResponseValues ==
    {Dict(<<Member(GenerationKey, Str(<<"X">>))>>),
     Dict(<<Member(GenerationKey, Str(<<"X">>)), Member(<<"stop_reason">>, Str(<<"stop">>))>>),
     Dict(<<Member(<<"stop_reason">>, Str(<<"length">>))>>),
     Dict(<<Member(GenerationKey, None)>>),
     List(<<Str(<<"X">>)>>)}
ResponseTexts ==
    {Dumps(v) : v \in ResponseValues}
    \cup {Cut(Dumps(v), 1) : v \in ResponseValues}
ProviderOutcomes ==
    {Returned(t, FALSE) : t \in ResponseTexts}
    \cup {Returned(<<>>, TRUE)}
    \cup {Raised(Exc("ClientError", <<"An error occurred">>, r)) : r \in ErrorResponses}
    \cup {Raised(Exc("EndpointConnectionError", <<"Could not connect to the endpoint URL">>, Unset))}

\* ---------------------------------------------------------------- state
VARIABLES
    environ,        \* os.environ.get('MODEL_ID'), Unset when not set
    invocations,    \* invocations started in this execution environment
    pc,             \* position in lambda_handler
    input,          \* the event argument as passed in
    event,          \* the local `event` (rebound by json.loads)
    prompt, max_tokens, temperature, top_p,
    request_body, model_id,
    response,       \* what invoke_model returned
    response_body, generated_text,
    exc,            \* the exception being handled
    result,         \* what the invocation gave: a return value or a raised exception
    calls           \* the invoke_model calls of this invocation

locals == <<prompt, max_tokens, temperature, top_p, request_body, model_id,
            response, response_body, generated_text>>
vars == <<environ, invocations, pc, input, event, locals, exc, result, calls>>

NoHeaders == [h \in {} |-> ""]
NoResult == [kind |-> "none", statusCode |-> 0, headers |-> NoHeaders, body |-> <<>>, exc |-> NoExc]
Return(statusCode, headers, body) ==
    [kind |-> "return", statusCode |-> statusCode, headers |-> headers, body |-> body,
     exc |-> NoExc]
Propagate(e) ==
    [kind |-> "raise", statusCode |-> 0, headers |-> NoHeaders, body |-> <<>>, exc |-> e]
NoResponse == Returned(<<>>, FALSE)

\* --------------------------------------------------- the handler's pieces
DefaultPrompt == Str(<<"Hello, how are you?">>)
DefaultMaxTokens == IntVal("512")
DefaultTemperature == FloatVal("0.7")
DefaultTopP == FloatVal("0.9")
DefaultModelId == Str(<<"meta.llama3-8b-instruct-v1:0">>)

GetPrompt(e) == DictGet(e, PromptKey, DefaultPrompt)
GetMaxTokens(e) == DictGet(e, MaxTokensKey, DefaultMaxTokens)
\* temperature read with top_p's default.
GetTemperature_TopPDefault(e) == DictGet(e, TemperatureKey, DefaultTopP)
GetTemperature(e) == DictGet(e, TemperatureKey, DefaultTemperature)
GetTopP(e) == DictGet(e, TopPKey, DefaultTopP)

\* prompt[:100] inside the f-string: a str or a list can be sliced.  A dict
\* raises KeyError or TypeError (slices are hashable from Python 3.12 on).
SliceErrors(v) ==
    CASE v.kind \in {"str", "list"} -> {}
      [] v.kind = "dict" ->
            {Exc("KeyError", <<"slice(None, 100, None)">>, Unset),
             Exc("TypeError", <<"unhashable type: 'slice'">>, Unset)}
      [] OTHER -> {NotSubscriptable(v)}

\* The request body with max_tokens left under its own name.
RequestBody_Unrenamed(p, m, t, tp) ==
    Dict(<<Member(<<"prompt">>, p), Member(<<"max_tokens">>, m),
           Member(<<"temperature">>, t), Member(<<"top_p">>, tp)>>)
RequestBody(p, m, t, tp) ==
    Dict(<<Member(<<"prompt">>, p), Member(<<"max_gen_len">>, m),
           Member(<<"temperature">>, t), Member(<<"top_p">>, tp)>>)
ResolveModelId(env) == IF env = Unset THEN DefaultModelId ELSE env
InvokeRequest(id, body) ==
    [modelId |-> id, body |-> Dumps(body),
     contentType |-> "application/json", accept |-> "application/json"]
\* The text read from the envelope's field name instead of the provider's.
GetGeneration_WrongKey(body) == DictGet(body, <<"generated_text">>, Str(<<>>))
GetGeneration(body) == DictGet(body, GenerationKey, Str(<<>>))

SuccessHeaders ==
    ("Content-Type" :> "application/json")
    @@ ("Access-Control-Allow-Origin" :> "*")
    @@ ("Access-Control-Allow-Headers" :> "Content-Type")
    @@ ("Access-Control-Allow-Methods" :> "OPTIONS,POST,GET")
ClientErrorHeaders ==
    ("Content-Type" :> "application/json") @@ ("Access-Control-Allow-Origin" :> "*")
DecodeErrorHeaders ==
    ("Content-Type" :> "application/json") @@ ("Access-Control-Allow-Origin" :> "*")
\* The catch-all block without its cross-origin header.
InternalErrorHeaders_NoOrigin ==
    ("Content-Type" :> "application/json")
InternalErrorHeaders ==
    ("Content-Type" :> "application/json") @@ ("Access-Control-Allow-Origin" :> "*")

SuccessEnvelope(text, id, p, m, t, tp) ==
    Dict(<<Member(<<"success">>, True),
           Member(<<"generated_text">>, text),
           Member(<<"model_id">>, id),
           Member(<<"input_prompt">>, p),
           Member(<<"parameters">>,
                  Dict(<<Member(<<"max_tokens">>, m), Member(<<"temperature">>, t),
                         Member(<<"top_p">>, tp)>>))>>)
FailureEnvelope(error, message) ==
    Dict(<<Member(<<"success">>, False), Member(<<"error">>, error),
           Member(<<"message">>, message)>>)
\* The error field holding the bare code.
ClientErrorResult_BareCode(code, message) ==
    Return(400, ClientErrorHeaders, Dumps(FailureEnvelope(Str(Format(code)), message)))
ClientErrorResult(code, message) ==
    Return(400, ClientErrorHeaders,
           Dumps(FailureEnvelope(Str(<<"AWS Error: ">> \o Format(code)), message)))
DecodeErrorResult(e) ==
    Return(400, DecodeErrorHeaders,
           Dumps(FailureEnvelope(Str(<<"Invalid JSON format">>), Str(e.text))))
InternalErrorResult(e) ==
    Return(500, InternalErrorHeaders,
           Dumps(FailureEnvelope(Str(<<"Internal server error">>), Str(e.text))))
\* The except clauses with the catch-all before the JSONDecodeError clause.
Handler_CatchAllEarly(e) ==
    CASE e.type = "ClientError" -> "ClientError"
      [] OTHER -> "Exception"
\* The except clause that takes an exception raised in the try block.
Handler(e) ==
    CASE e.type = "ClientError" -> "ClientError"
      [] e.type = "JSONDecodeError" -> "JSONDecodeError"
      [] OTHER -> "Exception"

\* ----------------------------------------------------------------- steps
Init ==
    /\ environ \in Environs
    /\ invocations = 0
    /\ pc = "idle"
    /\ input = ValueEvent(Unset)
    /\ event = ValueEvent(Unset)
    /\ prompt = Unset /\ max_tokens = Unset /\ temperature = Unset /\ top_p = Unset
    /\ request_body = Unset /\ model_id = Unset
    /\ response = NoResponse
    /\ response_body = Unset /\ generated_text = Unset
    /\ exc = NoExc
    /\ result = NoResult
    /\ calls = <<>>

\* The runtime calls lambda_handler(event, context).
Invoke ==
    /\ pc \in {"idle", "done"}
    /\ invocations < MaxInvocations
    /\ invocations' = invocations + 1
    /\ \E e \in Events : input' = e /\ event' = e
    /\ pc' = "parse"
    /\ prompt' = Unset /\ max_tokens' = Unset /\ temperature' = Unset /\ top_p' = Unset
    /\ request_body' = Unset /\ model_id' = Unset
    /\ response' = NoResponse
    /\ response_body' = Unset /\ generated_text' = Unset
    /\ exc' = NoExc
    /\ result' = NoResult
    /\ calls' = <<>>
    /\ UNCHANGED environ

Raise(e) == exc' = e /\ pc' = "except"

\* if isinstance(event, str): event = json.loads(event)
ParseEvent ==
    /\ pc = "parse"
    /\ IF event.isText
       THEN LET r == Loads(event.text) IN
            IF r.ok
            THEN event' = ValueEvent(r.val) /\ pc' = "extract" /\ UNCHANGED exc
            ELSE Raise(JSONDecodeError(r)) /\ UNCHANGED event
       ELSE pc' = "extract" /\ UNCHANGED <<event, exc>>
    /\ UNCHANGED <<environ, invocations, input, locals, result, calls>>

\* the four event.get(...) lines
ExtractParams ==
    /\ pc = "extract"
    /\ IF event.val.kind = "dict"
       THEN /\ prompt' = GetPrompt(event.val)
            /\ max_tokens' = GetMaxTokens(event.val)
            /\ temperature' = GetTemperature(event.val)
            /\ top_p' = GetTopP(event.val)
            /\ pc' = "log"
            /\ UNCHANGED exc
       ELSE /\ Raise(AttributeError(event.val, "get"))
            /\ UNCHANGED <<prompt, max_tokens, temperature, top_p>>
    /\ UNCHANGED <<environ, invocations, input, event, request_body, model_id,
                   response, response_body, generated_text, result, calls>>

\* logger.info(f"... {prompt[:100]}...")
LogPrompt ==
    /\ pc = "log"
    /\ IF SliceErrors(prompt) = {}
       THEN pc' = "build" /\ UNCHANGED exc
       ELSE \E e \in SliceErrors(prompt) : Raise(e)
    /\ UNCHANGED <<environ, invocations, input, event, locals, result, calls>>

\* request_body = {...}; model_id = os.environ.get('MODEL_ID', ...)
BuildRequest ==
    /\ pc = "build"
    /\ request_body' = RequestBody(prompt, max_tokens, temperature, top_p)
    /\ model_id' = ResolveModelId(environ)
    /\ pc' = "invoke"
    /\ UNCHANGED <<environ, invocations, input, event, prompt, max_tokens, temperature,
                   top_p, response, response_body, generated_text, exc, result, calls>>

\* response = bedrock_runtime.invoke_model(...)
InvokeModel ==
    /\ pc = "invoke"
    /\ calls' = Append(calls, InvokeRequest(model_id, request_body))
    /\ \E o \in ProviderOutcomes :
          IF o.type = "return"
          THEN response' = o /\ pc' = "decode" /\ UNCHANGED exc
          ELSE Raise(o.exc) /\ UNCHANGED response
    /\ UNCHANGED <<environ, invocations, input, event, prompt, max_tokens, temperature,
                   top_p, request_body, model_id, response_body, generated_text, result>>

\* response_body = json.loads(response['body'].read());
\* generated_text = response_body.get('generation', '')
DecodeResponse ==
    /\ pc = "decode"
    /\ LET r == Loads(response.body) IN
       CASE response.readFails ->
               /\ Raise(Exc("ReadTimeoutError", <<"Read timeout on endpoint URL">>, Unset))
               /\ UNCHANGED <<response_body, generated_text>>
         [] ~response.readFails /\ ~r.ok ->
               /\ Raise(JSONDecodeError(r))
               /\ UNCHANGED <<response_body, generated_text>>
         [] ~response.readFails /\ r.ok /\ r.val.kind # "dict" ->
               /\ response_body' = r.val
               /\ Raise(AttributeError(r.val, "get"))
               /\ UNCHANGED generated_text
         [] OTHER ->
               /\ response_body' = r.val
               /\ generated_text' = GetGeneration(r.val)
               /\ pc' = "return"
               /\ UNCHANGED exc
    /\ UNCHANGED <<environ, invocations, input, event, prompt, max_tokens, temperature,
                   top_p, request_body, model_id, response, result, calls>>

\* return {'statusCode': 200, ...}
ReturnSuccess ==
    /\ pc = "return"
    /\ result' = Return(200, SuccessHeaders,
                        Dumps(SuccessEnvelope(generated_text, model_id, prompt,
                                              max_tokens, temperature, top_p)))
    /\ pc' = "done"
    /\ UNCHANGED <<environ, invocations, input, event, locals, exc, calls>>

\* except ClientError as e: an exception raised by the two subscripts leaves
\* the handler, since no except clause encloses this block.
HandleClientError ==
    /\ pc = "except" /\ Handler(exc) = "ClientError"
    /\ LET error == Subscript(exc.response, <<"Error">>)
           code == Subscript(error.val, <<"Code">>)
           message == Subscript(error.val, <<"Message">>)
       IN  result' = CASE ~error.ok -> Propagate(error.exc)
                       [] error.ok /\ ~code.ok -> Propagate(code.exc)
                       [] error.ok /\ code.ok /\ ~message.ok -> Propagate(message.exc)
                       [] OTHER -> ClientErrorResult(code.val, message.val)
    /\ pc' = "done"
    /\ UNCHANGED <<environ, invocations, input, event, locals, exc, calls>>

\* except json.JSONDecodeError as e
HandleJSONDecodeError ==
    /\ pc = "except" /\ Handler(exc) = "JSONDecodeError"
    /\ result' = DecodeErrorResult(exc)
    /\ pc' = "done"
    /\ UNCHANGED <<environ, invocations, input, event, locals, exc, calls>>

\* except Exception as e
HandleException ==
    /\ pc = "except" /\ Handler(exc) = "Exception"
    /\ result' = InternalErrorResult(exc)
    /\ pc' = "done"
    /\ UNCHANGED <<environ, invocations, input, event, locals, exc, calls>>

Next ==
    \/ Invoke
    \/ ParseEvent
    \/ ExtractParams
    \/ LogPrompt
    \/ BuildRequest
    \/ InvokeModel
    \/ DecodeResponse
    \/ ReturnSuccess
    \/ HandleClientError
    \/ HandleJSONDecodeError
    \/ HandleException

Spec == Init /\ [][Next]_vars

TypeOK ==
    /\ pc \in {"idle", "parse", "extract", "log", "build", "invoke", "decode", "return",
               "except", "done"}
    /\ invocations \in 0..MaxInvocations
    /\ Len(calls) <= 1

\* ----------------------------------------------------------- vocabulary
Done == pc = "done"
Returned200 == Done /\ result.kind = "return" /\ result.statusCode = 200
\* The envelope the result's body encodes.
Envelope == Loads(result.body).val
EnvelopeField(key) == DictGet(Envelope, key, Unset)
EnvelopeParameter(key) == DictGet(EnvelopeField(<<"parameters">>), key, Unset)
\* The invocation input, decoded.
InputDecodes == ~input.isText \/ Loads(input.text).ok
InputValue == IF input.isText THEN Loads(input.text).val ELSE input.val
InputIsObject == InputDecodes /\ InputValue.kind = "dict"
\* The value the request takes for a field: the supplied one, else the default.
Effective(key, default) ==
    IF HasKey(InputValue, key) THEN InputValue.items[KeyIndex(InputValue, key)].v ELSE default
EffectivePrompt == Effective(<<"prompt">>, Str(<<"Hello, how are you?">>))
EffectiveMaxTokens == Effective(<<"max_tokens">>, IntVal("512"))
EffectiveTemperature == Effective(<<"temperature">>, FloatVal("0.7"))
EffectiveTopP == Effective(<<"top_p">>, FloatVal("0.9"))
\* The provider call of this invocation and how it ended.
ProviderCalled == Len(calls) >= 1
ProviderReturned == ProviderCalled /\ response # NoResponse
ProviderRaised == ProviderCalled /\ response = NoResponse /\ exc # NoExc
ProviderBody == Loads(response.body)
ProviderReturnedObject ==
    ProviderReturned /\ ~response.readFails /\ ProviderBody.ok /\ ProviderBody.val.kind = "dict"
\* A structured client error whose response carries a code and a message.
ErrorOf(e) == DictGet(e.response, <<"Error">>, Unset)
CarriesCodeAndMessage(e) ==
    /\ e.type = "ClientError"
    /\ ErrorOf(e).kind = "dict"
    /\ HasKey(ErrorOf(e), <<"Code">>) /\ HasKey(ErrorOf(e), <<"Message">>)
IsFailure(error, message) ==
    /\ Keys(Envelope) = {<<"success">>, <<"error">>, <<"message">>}
    /\ EnvelopeField(<<"success">>) = False
    /\ EnvelopeField(<<"error">>) = error
    /\ EnvelopeField(<<"message">>) = message

\* --------------------------------------------------------------- claims
\* C1: every invocation ends by returning {statusCode, headers, body} with
\* statusCode in {200, 400, 500}; no exception leaves the handler, whatever the
\* provider raises and also while an error is being formatted.
C1_AlwaysReturnsEnvelope ==
    Done => /\ result.kind = "return"
            /\ result.statusCode \in {200, 400, 500}

\* C2: a failure that is neither a structured client error nor a failure to
\* decode the invocation input gives statusCode 500, error "Internal server
\* error" and the raw error text as message, at every step, the decoding of the
\* provider's response body included.
C2_OtherFailuresGive500 ==
    (Done /\ exc # NoExc /\ exc.type # "ClientError" /\ InputDecodes)
        => /\ result.kind = "return"
           /\ result.statusCode = 500
           /\ IsFailure(Str(<<"Internal server error">>), Str(exc.text))

\* C3: a structured client error carrying code C and message M gives statusCode
\* 400, success false, error "AWS Error: " followed by C, and message M.
C3_ClientErrorMapped ==
    (Done /\ ProviderRaised /\ CarriesCodeAndMessage(exc))
        => /\ result.kind = "return"
           /\ result.statusCode = 400
           /\ IsFailure(Str(<<"AWS Error: ">> \o DictGet(ErrorOf(exc), <<"Code">>, Unset).lit),
                        DictGet(ErrorOf(exc), <<"Message">>, Unset))
C3_Witness ==
    /\ Done /\ ProviderRaised /\ CarriesCodeAndMessage(exc)
    /\ DictGet(ErrorOf(exc), <<"Code">>, Unset) = Str(<<"ThrottlingException">>)
    /\ result.statusCode = 400
    /\ EnvelopeField(<<"error">>) = Str(<<"AWS Error: ", "ThrottlingException">>)

\* C4: an input string that is not valid JSON gives statusCode 400, success
\* false, error "Invalid JSON format" and the decode diagnostic as message.
C4_MalformedInputMapped ==
    (Done /\ input.isText /\ ~Loads(input.text).ok)
        => /\ result.kind = "return"
           /\ result.statusCode = 400
           /\ IsFailure(Str(<<"Invalid JSON format">>),
                        Str(DecodeDiagnostic(Loads(input.text))))
C4_Witness ==
    /\ Done /\ input.isText /\ ~Loads(input.text).ok
    /\ Len(input.text) >= 3
    /\ result.statusCode = 400
    /\ EnvelopeField(<<"error">>) = Str(<<"Invalid JSON format">>)

\* C5: when the provider returns a JSON object body the handler returns 200
\* with success true, generated_text the body's "generation" field (the empty
\* string when the field is absent), model_id the resolved model identifier
\* and input_prompt the prompt of the request.
C5_SuccessEnvelope ==
    (Done /\ ProviderReturnedObject)
        => /\ result.kind = "return"
           /\ result.statusCode = 200
           /\ EnvelopeField(<<"success">>) = True
           /\ EnvelopeField(<<"generated_text">>) =
                 (IF HasKey(ProviderBody.val, <<"generation">>)
                  THEN DictGet(ProviderBody.val, <<"generation">>, Unset)
                  ELSE Str(<<>>))
           /\ EnvelopeField(<<"model_id">>) =
                 (IF environ = Unset THEN Str(<<"meta.llama3-8b-instruct-v1:0">>) ELSE environ)
           /\ EnvelopeField(<<"input_prompt">>) = EffectivePrompt
C5_Witness ==
    /\ Returned200 /\ ProviderReturnedObject
    /\ HasKey(ProviderBody.val, <<"generation">>)
    /\ EnvelopeField(<<"generated_text">>) = Str(<<"X">>)
    /\ environ # Unset

\* C6: in an input object any subset of {prompt, max_tokens, temperature,
\* top_p} may be absent without error; an absent field takes its default, a
\* present field keeps the supplied value, and the success envelope echoes
\* these effective values.
C6_DefaultsApplied ==
    /\ (Done /\ InputIsObject /\ EffectivePrompt.kind \in {"str", "list"}) => ProviderCalled
    /\ (pc = "except" /\ InputIsObject /\ ~ProviderCalled) => HasKey(InputValue, <<"prompt">>)
    /\ Returned200 =>
          /\ EnvelopeField(<<"input_prompt">>) = EffectivePrompt
          /\ Keys(EnvelopeField(<<"parameters">>)) =
                {<<"max_tokens">>, <<"temperature">>, <<"top_p">>}
          /\ EnvelopeParameter(<<"max_tokens">>) = EffectiveMaxTokens
          /\ EnvelopeParameter(<<"temperature">>) = EffectiveTemperature
          /\ EnvelopeParameter(<<"top_p">>) = EffectiveTopP
C6_Witness ==
    /\ Returned200
    /\ ~HasKey(InputValue, <<"temperature">>) /\ ~HasKey(InputValue, <<"prompt">>)
    /\ HasKey(InputValue, <<"top_p">>)
    /\ EnvelopeParameter(<<"temperature">>) = FloatVal("0.7")
    /\ EnvelopeParameter(<<"top_p">>) = FloatVal("0.5")

\* C7: on every return path, success or failure, the result's headers contain
\* Access-Control-Allow-Origin with value "*".
C7_AllowOriginOnEveryReturn ==
    result.kind = "return"
        => /\ "Access-Control-Allow-Origin" \in DOMAIN result.headers
           /\ result.headers["Access-Control-Allow-Origin"] = "*"
C7_Witness ==
    /\ Done /\ result.kind = "return" /\ result.statusCode = 500
    /\ result.headers["Access-Control-Allow-Origin"] = "*"

\* C8: the headers mapping of every failure result is identical, names and
\* values, to the headers mapping of the success result.
C8_HeadersIdentical ==
    result.kind = "return" => result.headers = SuccessHeaders

\* C9: the request body the provider receives carries exactly the effective
\* values, unmodified, under prompt, max_gen_len, temperature, top_p and no
\* other field; on success the echoed input_prompt and parameters equal the
\* values sent.
SentBody == Loads(calls[1].body).val
C9_RequestBodyFaithful ==
    /\ ProviderCalled =>
          /\ Loads(calls[1].body).ok
          /\ Keys(SentBody) = {<<"prompt">>, <<"max_gen_len">>, <<"temperature">>, <<"top_p">>}
          /\ DictGet(SentBody, <<"prompt">>, Unset) = EffectivePrompt
          /\ DictGet(SentBody, <<"max_gen_len">>, Unset) = EffectiveMaxTokens
          /\ DictGet(SentBody, <<"temperature">>, Unset) = EffectiveTemperature
          /\ DictGet(SentBody, <<"top_p">>, Unset) = EffectiveTopP
    /\ Returned200 =>
          /\ EnvelopeField(<<"input_prompt">>) = DictGet(SentBody, <<"prompt">>, Unset)
          /\ EnvelopeParameter(<<"max_tokens">>) = DictGet(SentBody, <<"max_gen_len">>, Unset)
          /\ EnvelopeParameter(<<"temperature">>) = DictGet(SentBody, <<"temperature">>, Unset)
          /\ EnvelopeParameter(<<"top_p">>) = DictGet(SentBody, <<"top_p">>, Unset)
C9_Witness ==
    /\ Returned200
    /\ HasKey(InputValue, <<"user">>)
    /\ DictGet(SentBody, <<"max_gen_len">>, Unset) = IntVal("512")
    /\ DictGet(SentBody, <<"top_p">>, Unset) = FloatVal("0.5")

\* The part of C10 that counts provider calls: at most one per invocation,
\* none before the fields are extracted, none when the input does not decode,
\* and none added while an error is handled.
ProviderInvokedAtMostOnce ==
    /\ Len(calls) <= 1
    /\ ProviderCalled => /\ InputIsObject
                         /\ prompt # Unset /\ max_tokens # Unset
                         /\ temperature # Unset /\ top_p # Unset
    /\ ~InputDecodes => ~ProviderCalled
    /\ pc \in {"parse", "extract", "log", "build", "invoke"} => ~ProviderCalled
\* C10: within one invocation the provider is invoked at most once, only after
\* the input is decoded and its fields extracted, never when input decoding
\* fails, and after the provider call fails the handler returns the error
\* result without invoking the provider again.
C10_SingleCallThenErrorResult ==
    /\ ProviderInvokedAtMostOnce
    /\ (Done /\ ProviderRaised)
          => /\ Len(calls) = 1
             /\ result.kind = "return"
             /\ result.statusCode \in {400, 500}
====
